---- MODULE Spec2Model ----
(***************************************************************************)
(* Model of etl.py: the Sparkify data-lake ETL.  main() acquires a Spark   *)
(* session, process_song_data derives and writes songs and artists,        *)
(* process_log_data derives and writes users, time and songplays.          *)
(*                                                                         *)
(* A DataFrame is a bag (multiset) of rows; a row is a record whose every  *)
(* column is nullable (every StructField is declared nullable): a column   *)
(* value is Null or V(x).  The corpora are the DataFrames spark.read.json  *)
(* returns for the declared schemas; Decimal() is DecimalType(10,0), so    *)
(* duration and length are integers.  Timestamps are interpreted in UTC.   *)
(***************************************************************************)
EXTENDS Integers, Sequences, FiniteSets, Bags, TLC

\* Bounds of the model: records per corpus and pipeline executions.
MaxSongs == 2
MaxLogs == 3
MaxRuns == 2

---------------------------------------------------------------------------
\* Nullable column values and SQL three-valued logic.

Null == <<>>
V(x) == <<x>>

\* SQL a = b : NULL when either side is NULL.
SqlEq(a, b) == IF a = Null \/ b = Null THEN Null ELSE V(a[1] = b[1])

\* SQL a != b.
SqlNe(a, b) == IF a = Null \/ b = Null THEN Null ELSE V(a[1] # b[1])

\* SQL a AND b (Kleene): FALSE dominates NULL.
SqlAnd(a, b) ==
    IF a = V(FALSE) \/ b = V(FALSE) THEN V(FALSE)
    ELSE IF a = Null \/ b = Null THEN Null
    ELSE V(TRUE)

---------------------------------------------------------------------------
\* DataFrame operations.

Range(s) == {s[i] : i \in DOMAIN s}

\* The DataFrame holding the rows of sequence s, with multiplicity.
BagOfSeq(s) == [r \in Range(s) |-> Cardinality({i \in DOMAIN s : s[i] = r})]

\* df.select(cols): projection, multiplicities kept.
Select(df, cols) == BagOfAll(LAMBDA r : [c \in cols |-> r[c]], df)

\* df.dropDuplicates() and SELECT DISTINCT: one copy of each row.
\* (without the deduplication: every copy kept)
DropDuplicatesKeepAll(df) == df
DropDuplicates(df) == SetToBag(BagToSet(df))

\* A Column expression over df is the function giving its value on each row.

\* df.where(cond): the rows whose condition evaluates to TRUE (not NULL).
Where(df, cond) == [r \in {x \in DOMAIN df : cond[x] = V(TRUE)} |-> df[r]]

\* df.withColumn(name, col): add or replace one column.
WithColumn(df, name, col) ==
    BagOfAll(LAMBDA r : [c \in (DOMAIN r) \cup {name} |->
                            IF c = name THEN col[r] ELSE r[c]], df)

\* df.write.mode("overwrite"): the new contents of the location
\* (mode("append") would add the new rows to the old).
WriteAppend(old, new) == old (+) new
WriteOverwrite(old, new) == new

---------------------------------------------------------------------------
\* Column expressions.

DigitOf ==
    [c \in {"0", "1", "2", "3", "4", "5", "6", "7", "8", "9"} |->
        CASE c = "0" -> 0 [] c = "1" -> 1 [] c = "2" -> 2 [] c = "3" -> 3
          [] c = "4" -> 4 [] c = "5" -> 5 [] c = "6" -> 6 [] c = "7" -> 7
          [] c = "8" -> 8 [] c = "9" -> 9]

RECURSIVE ParseDigits(_, _)
ParseDigits(s, acc) ==
    IF s = <<>> THEN acc ELSE ParseDigits(Tail(s), 10 * acc + DigitOf[Head(s)])

\* cast(userId as int) on a string column (a string is a sequence of
\* characters): the number a digit string denotes, NULL for NULL and for
\* a string that is no integer literal.
CastAsInt(v) ==
    IF v = Null THEN Null
    ELSE IF v[1] = <<>> \/ \E i \in DOMAIN v[1] : v[1][i] \notin DOMAIN DigitOf
         THEN Null
         ELSE V(ParseDigits(v[1], 0))

\* datetime.fromtimestamp(ts/1000): true division keeps the milliseconds;
\* TimestampType holds whole seconds and microseconds.
get_datetime(ts) ==
    IF ts = Null THEN Null
    ELSE V([sec |-> ts[1] \div 1000, micros |-> (ts[1] % 1000) * 1000])

EpochDay(dt) == dt.sec \div 86400

\* The proleptic Gregorian date of an epoch day, as the engine's
\* year(), month() and day() compute it.
CivilDate(d) ==
    LET z == d + 719468
        era == z \div 146097
        doe == z - era * 146097
        yoe == (doe - doe \div 1460 + doe \div 36524 - doe \div 146096) \div 365
        doy == doe - (365 * yoe + yoe \div 4 - yoe \div 100)
        mp == (5 * doy + 2) \div 153
        m == IF mp < 10 THEN mp + 3 ELSE mp - 9
    IN  [year |-> yoe + era * 400 + (IF m <= 2 THEN 1 ELSE 0),
         month |-> m,
         day |-> doy - (153 * mp + 2) \div 5 + 1]

SqlHour(v) == IF v = Null THEN Null ELSE V((v[1].sec \div 3600) % 24)
SqlDay(v) == IF v = Null THEN Null ELSE V(CivilDate(EpochDay(v[1])).day)
SqlMonth(v) == IF v = Null THEN Null ELSE V(CivilDate(EpochDay(v[1])).month)
SqlYear(v) == IF v = Null THEN Null ELSE V(CivilDate(EpochDay(v[1])).year)
\* dayofweek: 1 = Sunday .. 7 = Saturday (epoch day 0 is a Thursday).
SqlDayOfWeek(v) == IF v = Null THEN Null ELSE V(((EpochDay(v[1]) + 4) % 7) + 1)
\* weekday: 0 = Monday .. 6 = Sunday.
SqlWeekDay(v) == IF v = Null THEN Null ELSE V((EpochDay(v[1]) + 3) % 7)
\* date_format(datetime, 'EEEE'): the full name of the day.
SqlDayName(v) ==
    IF v = Null THEN Null
    ELSE V(<<"Monday", "Tuesday", "Wednesday", "Thursday", "Friday",
             "Saturday", "Sunday">>[((EpochDay(v[1]) + 3) % 7) + 1])

---------------------------------------------------------------------------
\* The corpora: rows of the declared schemas.

SongRecord(song_id, artist_id, artist_name, title, duration) ==
    [num_songs |-> V(1), artist_id |-> artist_id, artist_latitude |-> Null,
     artist_longitude |-> Null, artist_location |-> Null,
     artist_name |-> artist_name, song_id |-> song_id, title |-> title,
     duration |-> duration, year |-> V(2003)]

LogRecord(ts, userId, page, level, song) ==
    [artist |-> V("Band"), auth |-> V("Logged In"), firstName |-> V("Ann"),
     gender |-> V("F"), itemInSession |-> V(0), lastName |-> V("Lee"),
     length |-> V(211), level |-> level, location |-> V("Oslo"),
     method |-> V("PUT"), page |-> page, registration |-> V(1),
     sessionId |-> V(1), song |-> song, status |-> V(200), ts |-> ts,
     userAgent |-> V("UA"), userId |-> userId]

\* Song rows: two songs sharing (artist_name, duration, title) under
\* different song_id, one with a NULL artist_name, one of another duration.
SongRows ==
    { SongRecord(V("SOA"), V("ARA"), V("Band"), V("T1"), V(211)),
      SongRecord(V("SOB"), V("ARA"), V("Band"), V("T1"), V(211)),
      SongRecord(V("SOC"), V("ARB"), Null, V("T1"), V(211)),
      SongRecord(V("SOD"), V("ARB"), V("Band"), V("T1"), V(180)) }

\* Log rows: song plays of user "10" (free and paid, matched and
\* unmatched song, two timestamps), a play whose userId is no integer
\* literal, and rows the filter rejects (another page, empty userId,
\* NULL userId, NULL page).
SongPlayRows ==
    { LogRecord(V(90061001), V(<<"1", "0">>), V("NextSong"), V("free"), V("T1")),
      LogRecord(V(90061001), V(<<"1", "0">>), V("NextSong"), V("paid"), V("T1")),
      LogRecord(V(262922500), V(<<"1", "0">>), V("NextSong"), V("free"), V("T9")),
      LogRecord(V(90061001), V(<<"a", "b">>), V("NextSong"), V("free"), V("T1")) }

OtherRows ==
    { LogRecord(V(90061001), V(<<"1", "0">>), V("Home"), V("free"), Null),
      LogRecord(V(90061001), V(<<>>), V("NextSong"), V("free"), V("T1")),
      LogRecord(V(90061001), Null, V("NextSong"), V("free"), V("T1")),
      LogRecord(V(262922500), V(<<"1", "0">>), Null, V("paid"), V("T1")) }

LogRows == SongPlayRows \cup OtherRows

SeqsUpTo(S, n) == UNION {[1..k -> S] : k \in 0..n}

---------------------------------------------------------------------------
\* The tables, as the statements of process_song_data and
\* process_log_data derive them.

\* (deduplicating on title and artist_id alone)
SongsTableByTitle(d) ==
    LET rows == BagToSet(Select(d, {"song_id", "title", "artist_id", "year", "duration"}))
    IN  SetToBag({CHOOSE r \in rows : r.title = k[1] /\ r.artist_id = k[2] :
                    k \in {<<x.title, x.artist_id>> : x \in rows}})

\* songs_table: select + dropDuplicates.
SongsTable(d) ==
    DropDuplicates(Select(d, {"song_id", "title", "artist_id", "year", "duration"}))

\* artists_table: SELECT DISTINCT ... FROM song_dataset.
ArtistsSql(song_dataset) ==
    DropDuplicates(Select(song_dataset,
        {"artist_id", "artist_name", "artist_location", "artist_latitude",
         "artist_longitude"}))

\* (the filter without its userId test)
NextSongFilterPageOnly(r) == SqlEq(r.page, V("NextSong"))

\* The filter of process_log_data: page = 'NextSong' AND userId != ''.
NextSongFilter(r) == SqlAnd(SqlEq(r.page, V("NextSong")), SqlNe(r.userId, V(<<>>)))

\* where(...).withColumn('userId', cast(userId as int)).
FilterAndCast(d) ==
    LET kept == Where(d, [r \in DOMAIN d |-> NextSongFilter(r)])
    IN  WithColumn(kept, "userId", [r \in DOMAIN kept |-> CastAsInt(r.userId)])

\* (deduplicating on userId alone)
UsersTableByUserId(d) ==
    LET rows == BagToSet(Select(d, {"userId", "firstName", "lastName", "gender", "level"}))
    IN  SetToBag({CHOOSE r \in rows : r.userId = u : u \in {x.userId : x \in rows}})

\* users_table: select + dropDuplicates.
UsersTable(d) ==
    DropDuplicates(Select(d, {"userId", "firstName", "lastName", "gender", "level"}))

\* df.withColumn('start_time', df.ts/1000): a double, kept as the pair
\* of whole seconds and milliseconds.
WithStartTime(d) ==
    WithColumn(d, "start_time",
        [r \in DOMAIN d |-> IF r.ts = Null THEN Null
                            ELSE V(<<r.ts[1] \div 1000, r.ts[1] % 1000>>)])

\* df.withColumn('datetime', get_datetime('ts')).
WithDatetime(d) == WithColumn(d, "datetime", [r \in DOMAIN d |-> get_datetime(r.ts)])

TimeRow(r) ==
    [datetime |-> r.datetime, Hour |-> SqlHour(r.datetime),
     dayofweek |-> SqlDayOfWeek(r.datetime), Week |-> SqlDayName(r.datetime),
     Day |-> SqlDay(r.datetime), Month |-> SqlMonth(r.datetime),
     Year |-> SqlYear(r.datetime), WeekDay |-> SqlWeekDay(r.datetime)]

\* time_table: SELECT datetime, hour(datetime), ... FROM log_dataset.
TimeSql(log_dataset) == BagOfAll(TimeRow, log_dataset)

\* (the join without its length = duration test)
JoinOnIgnoresLength(e, s) ==
    SqlAnd(SqlEq(e.artist, s.artist_name), SqlEq(e.song, s.title))

\* The join condition of the songplays query.
JoinOn(e, s) ==
    SqlAnd(SqlAnd(SqlEq(e.artist, s.artist_name), SqlEq(e.length, s.duration)),
           SqlEq(e.song, s.title))

SongplayRow(e, s) ==
    [ts |-> e.ts, month |-> SqlMonth(e.datetime), year |-> SqlYear(e.datetime),
     userId |-> e.userId, level |-> e.level, song_id |-> s.song_id,
     artist_id |-> s.artist_id, sessionId |-> e.sessionId,
     location |-> e.location, userAgent |-> e.userAgent]

\* The inner join log_dataset e JOIN song_dataset s ON ...: one joined
\* row per matching pair, with the product of the multiplicities.
InnerJoin(log_dataset, song_dataset) ==
    LET pairs == {p \in (DOMAIN log_dataset) \X (DOMAIN song_dataset) :
                    JoinOn(p[1], p[2]) = V(TRUE)}
    IN  [p \in pairs |-> log_dataset[p[1]] * song_dataset[p[2]]]

\* songplays_table: SELECT DISTINCT ... FROM log_dataset e JOIN song_dataset s.
SongplaysSql(log_dataset, song_dataset) ==
    DropDuplicates(BagOfAll(LAMBDA p : SongplayRow(p[1], p[2]),
                            InnerJoin(log_dataset, song_dataset)))

\* (the view left unregistered)
TempViewNotRegistered(vs, name, d) == vs

\* df.createOrReplaceTempView(name): the session's views afterwards.
CreateOrReplaceTempView(vs, name, d) ==
    [n \in (DOMAIN vs) \cup {name} |-> IF n = name THEN d ELSE vs[n]]

---------------------------------------------------------------------------
\* The state.

VARIABLES
    song_data,        \* the song corpus under input_data
    log_data,         \* the log corpus under input_data
    store,            \* the five output locations under output_data
    start_store,      \* the output locations as the current run found them
    runs,             \* executions of main so far
    pc,               \* the statement main is about to execute
    err,              \* the exception that ended the run, or "none"
    spark,            \* whether the session has been acquired
    views,            \* the session's temporary views
    df,               \* the local df of the running function
    songs_table, artists_table, users_table, time_table, songplays_table

locals == <<df, songs_table, artists_table, users_table, time_table, songplays_table>>
input == <<song_data, log_data>>
vars == <<song_data, log_data, store, start_store, runs, pc, err, spark, views,
          df, songs_table, artists_table, users_table, time_table,
          songplays_table>>

Locations == {"songs", "artists", "users", "time", "songplays"}

\* The order in which main writes the locations.
WriteOrder == <<"songs", "artists", "users", "time", "songplays">>

Init ==
    /\ \E s \in SeqsUpTo(SongRows, MaxSongs) : song_data = BagOfSeq(s)
    /\ \E l \in SeqsUpTo(LogRows, MaxLogs) : log_data = BagOfSeq(l)
    /\ store = [l \in Locations |-> EmptyBag]
    /\ start_store = [l \in Locations |-> EmptyBag]
    /\ runs = 0
    /\ pc = "idle"
    /\ err = "none"
    /\ spark = FALSE
    /\ views = <<>>
    /\ df = EmptyBag
    /\ songs_table = EmptyBag
    /\ artists_table = EmptyBag
    /\ users_table = EmptyBag
    /\ time_table = EmptyBag
    /\ songplays_table = EmptyBag

---------------------------------------------------------------------------
\* The statements of main, process_song_data and process_log_data.

\* Where control goes when the statement at `at` raises: nothing in
\* etl.py catches, so the exception leaves main and the run is over.
\* (were the exception swallowed, main would go on to the next statement)
RaiseSkipsStatement(at, next) == next
Raise(at, next) == "aborted"

\* python etl.py: a new process runs main against the same locations.
Start ==
    /\ pc \in {"idle", "done"}
    /\ runs < MaxRuns
    /\ runs' = runs + 1
    /\ start_store' = store
    /\ pc' = "create_spark_session"
    /\ err' = "none"
    /\ spark' = FALSE
    /\ views' = <<>>
    /\ df' = EmptyBag
    /\ songs_table' = EmptyBag
    /\ artists_table' = EmptyBag
    /\ users_table' = EmptyBag
    /\ time_table' = EmptyBag
    /\ songplays_table' = EmptyBag
    /\ UNCHANGED <<input, store>>

\* spark = create_spark_session()
CreateSparkSession ==
    /\ pc = "create_spark_session"
    /\ spark' = TRUE
    /\ pc' = "song_read"
    /\ UNCHANGED <<input, store, start_store, runs, err, views, locals>>

\* A statement that assigns one local and touches nothing else.
Assign(at, next) ==
    /\ pc = at
    /\ spark
    /\ pc' = next
    /\ UNCHANGED <<input, store, start_store, runs, err, spark, views>>

\* table.write.mode("overwrite").parquet(output_data + loc): the write
\* succeeds, or fails leaving the location as it was or emptied (the
\* overwrite deletes the old contents before it writes the new).
Write(at, next, loc, table) ==
    /\ pc = at
    /\ spark
    /\ \/ /\ store' = [store EXCEPT ![loc] = WriteOverwrite(@, table)]
          /\ pc' = next
          /\ err' = err
       \/ /\ \E left \in {store[loc], EmptyBag} :
                store' = [store EXCEPT ![loc] = left]
          /\ pc' = Raise(at, next)
          /\ err' = loc
    /\ UNCHANGED <<input, start_store, runs, spark, views, locals>>

\* df = spark.read.json(song_data, schema=song_schema)
ReadSongData ==
    /\ Assign("song_read", "songs_select")
    /\ df' = song_data
    /\ UNCHANGED <<songs_table, artists_table, users_table, time_table, songplays_table>>

\* songs_table = df.select(...).dropDuplicates()
SelectSongs ==
    /\ Assign("songs_select", "songs_write")
    /\ songs_table' = SongsTable(df)
    /\ UNCHANGED <<df, artists_table, users_table, time_table, songplays_table>>

WriteSongs == Write("songs_write", "song_view", "songs", songs_table)

\* df.createOrReplaceTempView("song_dataset")
CreateSongView ==
    /\ pc = "song_view"
    /\ views' = CreateOrReplaceTempView(views, "song_dataset", df)
    /\ pc' = "artists_sql"
    /\ UNCHANGED <<input, store, start_store, runs, err, spark, locals>>

\* A spark.sql statement over a view that is not registered raises
\* AnalysisException and assigns nothing.
SqlFails(at, next) ==
    /\ pc = at
    /\ pc' = Raise(at, next)
    /\ err' = "AnalysisException"
    /\ UNCHANGED <<input, store, start_store, runs, spark, views, locals>>

\* artists_table = spark.sql("SELECT DISTINCT ... FROM song_dataset")
SelectArtists ==
    IF "song_dataset" \in DOMAIN views
    THEN /\ Assign("artists_sql", "artists_write")
         /\ artists_table' = ArtistsSql(views["song_dataset"])
         /\ UNCHANGED <<df, songs_table, users_table, time_table, songplays_table>>
    ELSE SqlFails("artists_sql", "artists_write")

\* The last statement of process_song_data; main then calls process_log_data.
WriteArtists == Write("artists_write", "log_read", "artists", artists_table)

\* df = spark.read.json(log_data, schema=log_schema)
ReadLogData ==
    /\ Assign("log_read", "log_filter")
    /\ df' = log_data
    /\ UNCHANGED <<songs_table, artists_table, users_table, time_table, songplays_table>>

\* df = df.where(...).withColumn('userId', expr("cast(userId as int)"))
FilterLog ==
    /\ Assign("log_filter", "users_select")
    /\ df' = FilterAndCast(df)
    /\ UNCHANGED <<songs_table, artists_table, users_table, time_table, songplays_table>>

\* users_table = df.select(...).dropDuplicates()
SelectUsers ==
    /\ Assign("users_select", "users_write")
    /\ users_table' = UsersTable(df)
    /\ UNCHANGED <<df, songs_table, artists_table, time_table, songplays_table>>

WriteUsers == Write("users_write", "start_time", "users", users_table)

\* df = df.withColumn('start_time', (df.ts/1000))
AddStartTime ==
    /\ Assign("start_time", "datetime")
    /\ df' = WithStartTime(df)
    /\ UNCHANGED <<songs_table, artists_table, users_table, time_table, songplays_table>>

\* df = df.withColumn('datetime', get_datetime('ts'))
AddDatetime ==
    /\ Assign("datetime", "log_view")
    /\ df' = WithDatetime(df)
    /\ UNCHANGED <<songs_table, artists_table, users_table, time_table, songplays_table>>

\* df.createOrReplaceTempView("log_dataset")
CreateLogView ==
    /\ pc = "log_view"
    /\ views' = CreateOrReplaceTempView(views, "log_dataset", df)
    /\ pc' = "time_sql"
    /\ UNCHANGED <<input, store, start_store, runs, err, spark, locals>>

\* time_table = spark.sql("SELECT datetime, hour(datetime), ... FROM log_dataset")
SelectTime ==
    IF "log_dataset" \in DOMAIN views
    THEN /\ Assign("time_sql", "time_write")
         /\ time_table' = TimeSql(views["log_dataset"])
         /\ UNCHANGED <<df, songs_table, artists_table, users_table, songplays_table>>
    ELSE SqlFails("time_sql", "time_write")

WriteTime == Write("time_write", "songplays_sql", "time", time_table)

\* songplays_table = spark.sql("SELECT DISTINCT ... FROM log_dataset e
\* JOIN song_dataset s ON ...")
SelectSongplays ==
    IF {"log_dataset", "song_dataset"} \subseteq DOMAIN views
    THEN /\ Assign("songplays_sql", "songplays_write")
         /\ songplays_table' =
               SongplaysSql(views["log_dataset"], views["song_dataset"])
         /\ UNCHANGED <<df, songs_table, artists_table, users_table, time_table>>
    ELSE SqlFails("songplays_sql", "songplays_write")

\* The last statement of process_log_data and of main.
WriteSongplays == Write("songplays_write", "done", "songplays", songplays_table)

Next ==
    \/ Start
    \/ CreateSparkSession
    \/ ReadSongData
    \/ SelectSongs
    \/ WriteSongs
    \/ CreateSongView
    \/ SelectArtists
    \/ WriteArtists
    \/ ReadLogData
    \/ FilterLog
    \/ SelectUsers
    \/ WriteUsers
    \/ AddStartTime
    \/ AddDatetime
    \/ CreateLogView
    \/ SelectTime
    \/ WriteTime
    \/ SelectSongplays
    \/ WriteSongplays

Spec == Init /\ [][Next]_vars

---------------------------------------------------------------------------
\* Vocabulary of the properties, stated over the corpora themselves.

RECURSIVE SumOver(_, _)
SumOver(S, f) ==
    IF S = {} THEN 0
    ELSE LET x == CHOOSE y \in S : TRUE IN f[x] + SumOver(S \ {x}, f)

\* A log record the filter is meant to keep.
IsSongPlay(r) ==
    /\ r.page = V("NextSong")
    /\ r.userId # Null
    /\ r.userId # V(<<>>)

SongPlays == {r \in DOMAIN log_data : IsSongPlay(r)}

\* Song s matches log record e by exact equality of the three join keys.
Matches(e, s) ==
    /\ e.artist # Null /\ e.artist = s.artist_name
    /\ e.length # Null /\ e.length = s.duration
    /\ e.song # Null /\ e.song = s.title

HasMatch(e) == \E s \in DOMAIN song_data : Matches(e, s)

UserTuple(r) ==
    [userId |-> CastAsInt(r.userId), firstName |-> r.firstName,
     lastName |-> r.lastName, gender |-> r.gender, level |-> r.level]

\* Rows of table t, counted with multiplicity.
RowCount(t) == BagCardinality(t)

\* No row occurs twice in table t.
NoRepeatedRow(t) == \A r \in DOMAIN t : t[r] = 1

---------------------------------------------------------------------------
\* C1: every row of users, time and songplays comes from a log record
\* with page = "NextSong" and a userId that is not the empty string, and
\* the records the filter rejects add no row: after a completed run time
\* holds as many rows as there are such records.
C1_FilteredRowsOnly ==
    /\ \A u \in DOMAIN store["users"] :
          \E r \in SongPlays : u = UserTuple(r)
    /\ \A t \in DOMAIN store["time"] :
          \E r \in SongPlays : t.datetime = get_datetime(r.ts)
    /\ \A p \in DOMAIN store["songplays"] :
          \E r \in SongPlays :
             /\ p.ts = r.ts /\ p.userId = CastAsInt(r.userId)
             /\ p.level = r.level /\ p.sessionId = r.sessionId
             /\ p.location = r.location /\ p.userAgent = r.userAgent
    /\ pc = "done" =>
          RowCount(store["time"]) = SumOver(SongPlays, log_data)

\* A completed run over a corpus that mixes song plays with rejected records.
C1_Witness ==
    /\ pc = "done"
    /\ SongPlays # {}
    /\ \E r \in DOMAIN log_data : ~IsSongPlay(r)
    /\ store["users"] # EmptyBag
    /\ store["songplays"] # EmptyBag

\* C2 as stated: songplays has at most as many rows as there are song
\* plays (counted as records) with at least one matching song.
C2_AtMostMatchedRecords ==
    pc = "done" =>
       RowCount(store["songplays"])
          <= SumOver({e \in SongPlays : HasMatch(e)}, log_data)

\* C2 amended: songplays has at most as many rows as there are matching
\* pairs of a song play and a song record.
C2_AtMostMatchingPairs ==
    pc = "done" =>
       RowCount(store["songplays"])
          <= SumOver({p \in SongPlays \X DOMAIN song_data : Matches(p[1], p[2])},
                     [p \in SongPlays \X DOMAIN song_data |->
                         log_data[p[1]] * song_data[p[2]]])

\* One song play matched by two song records of different song_id: two rows.
C2_Witness ==
    /\ pc = "done"
    /\ RowCount(log_data) = 1
    /\ RowCount(store["songplays"]) = 2

\* C3: a second run in a row over unchanged input leaves each of the five
\* locations with the contents the first run left there.
C3_RerunLeavesOutputUnchanged ==
    (pc = "done" /\ runs >= 2) => store = start_store

\* Two completed runs over corpora that give every table a row.
C3_Witness ==
    /\ pc = "done"
    /\ runs = 2
    /\ \A l \in Locations : store[l] # EmptyBag

\* The table of the current run that main writes to location l.
TableFor(l) ==
    CASE l = "songs" -> songs_table
      [] l = "artists" -> artists_table
      [] l = "users" -> users_table
      [] l = "time" -> time_table
      [] l = "songplays" -> songplays_table

\* Once the write of a location has failed, the locations written before
\* it hold the tables of this run and the locations after it hold what
\* the run found there.
C4_FailedWriteState ==
    err \in Locations =>
       \A i, j \in DOMAIN WriteOrder :
          WriteOrder[i] = err =>
             /\ j < i => store[WriteOrder[j]] = TableFor(WriteOrder[j])
             /\ j > i => store[WriteOrder[j]] = start_store[WriteOrder[j]]

\* C4: a failed write ends the run: no step follows it (no retry, no
\* later write), the tables written earlier keep their new contents and
\* no later table is written.
C4_WriteFailureIsFatal == []C4_FailedWriteState /\ [][err = "none"]_vars

\* The write of time fails in a first run that had written users.
C4_Witness ==
    /\ err = "time"
    /\ runs = 1
    /\ store["users"] # EmptyBag
    /\ store["songs"] # EmptyBag
    /\ time_table # EmptyBag

\* C5 as stated: no two rows of the time table have the same datetime.
C5_OneRowPerDatetime ==
    /\ NoRepeatedRow(store["time"])
    /\ \A a, b \in DOMAIN store["time"] : a.datetime = b.datetime => a = b

\* C6 as stated: no two rows of songplays agree on ts, userId and sessionId.
C6_OneRowPerPlayKey ==
    /\ NoRepeatedRow(store["songplays"])
    /\ \A a, b \in DOMAIN store["songplays"] :
          (a.ts = b.ts /\ a.userId = b.userId /\ a.sessionId = b.sessionId)
             => a = b

\* C6 amended: no two rows of songplays agree on all ten columns.
C6_NoRepeatedSongplay == NoRepeatedRow(store["songplays"])

\* Two rows of songplays for one (ts, userId, sessionId), from a corpus
\* that holds a song play twice.
C6_Witness ==
    /\ pc = "done"
    /\ \E r \in SongPlays : log_data[r] >= 2 /\ HasMatch(r)
    /\ \E a, b \in DOMAIN store["songplays"] :
          a # b /\ a.ts = b.ts /\ a.userId = b.userId /\ a.sessionId = b.sessionId

\* C7 as stated: every row of users has a userId that is not NULL.
C7_UserIdNeverNull ==
    \A u \in DOMAIN store["users"] : u.userId # Null /\ u.userId[1] \in Int

\* C8: users is the set of distinct (userId, firstName, lastName, gender,
\* level) tuples of the song plays, each once.
C8_UsersAreDistinctTuples ==
    pc = "done" => store["users"] = SetToBag({UserTuple(r) : r \in SongPlays})

\* One user, free in one record and paid in another, with a record
\* repeated: two rows.
C8_Witness ==
    /\ pc = "done"
    /\ \E r \in SongPlays : log_data[r] >= 2
    /\ \E a, b \in DOMAIN store["users"] :
          a.userId # Null /\ a.userId = b.userId /\ a.level # b.level

\* The session exists once create_spark_session has run, no query has
\* found a view unregistered, and song_dataset is registered around the
\* songplays join.
C9_Order ==
    /\ err # "AnalysisException"
    /\ pc \notin {"idle", "create_spark_session"} => spark
    /\ pc \in {"songplays_sql", "songplays_write"} => "song_dataset" \in DOMAIN views

\* C9: the session is acquired before any other statement of main runs,
\* process_log_data starts only when process_song_data has made its last
\* step, and no query finds a view it reads unregistered: song_dataset is
\* registered whenever the songplays join is evaluated.
C9_Sequential ==
    /\ []C9_Order
    /\ [][(pc' = "log_read" => pc = "artists_write")
          /\ (pc' = "song_read" => pc = "create_spark_session")
          /\ (pc = "songplays_sql" =>
                 /\ "song_dataset" \in DOMAIN views
                 /\ store["artists"] = artists_table)]_vars

\* The join has been evaluated, on registered views, and gave a row.
C9_Witness ==
    /\ pc = "songplays_write"
    /\ songplays_table # EmptyBag
    /\ DOMAIN views = {"song_dataset", "log_dataset"}

\* C10: after a completed run every row of songplays has a row of songs
\* with its song_id and artist_id, a row of artists with its artist_id
\* and a row of users with its userId and level.
C10_ReferentiallyClosed ==
    pc = "done" =>
       \A p \in DOMAIN store["songplays"] :
          /\ \E s \in DOMAIN store["songs"] :
                s.song_id = p.song_id /\ s.artist_id = p.artist_id
          /\ \E a \in DOMAIN store["artists"] : a.artist_id = p.artist_id
          /\ \E u \in DOMAIN store["users"] :
                u.userId = p.userId /\ u.level = p.level

\* A completed run whose songplays rows name two songs and two levels.
C10_Witness ==
    /\ pc = "done"
    /\ \E a, b \in DOMAIN store["songplays"] :
          a.song_id # b.song_id /\ a.level # b.level

====
